---- MODULE Spec2Model ----
(***************************************************************************)
(* The "games" service of src/services/games.service.js: a Moleculer        *)
(* service over a document store (adapter), with the actions create,        *)
(* update, list, listByUser and remove, the read-through cache of list and  *)
(* listByUser, and the cache cleaning event of the mixin.                   *)
(***************************************************************************)
EXTENDS Integers, Sequences, FiniteSets, TLC

VARIABLES
    store,   \* the adapter's collection: a set of documents
    nextId,  \* the next _id the adapter gives to an inserted document
    now,     \* the clock read by new Date()
    cache,   \* the cacher: cache key -> cached response
    last,    \* the response the service gave last
    flight   \* the handlers suspended at an await, and the count of store writes

vars == <<store, nextId, now, cache, last, flight>>

(* ------------------------------ bounds --------------------------------- *)
MaxCalls == 3        \* calls and events the service receives in one behaviour
MaxTime == 1         \* last value of the clock
MaxFlight == 1       \* handlers suspended at once, where calls follow one another
MaxFew == 2          \* calls and events, where the calls overlap freely with any input

(* ------------------------------ values --------------------------------- *)
Users == {"A", "B"}
NoUser == "undefined"             \* ctx.meta.userID of an anonymous call
Null == [null |-> TRUE]
NoParams == [x \in {} |-> TRUE]   \* an object without properties

Chess == <<"C", "h", "e", "s", "s">>
NameX == <<"X">>
Empty == <<>>

Has(o, f) == f \in DOMAIN o

\* if (v): a value is falsy when it is "", 0, null or false
Falsy == {ToString(""), ToString(0), ToString(Null), ToString(FALSE)}
Truthy(v) == ToString(v) \notin Falsy

\* Object.assign({}, a, b), and what "$set": b does to the document a
Assign(a, b) ==
    [f \in (DOMAIN a) \union (DOMAIN b) |-> IF f \in DOMAIN b THEN b[f] ELSE a[f]]

(* --------------------------- slug of create ---------------------------- *)
\* slug(name, { lower: true }) on names made of letters: each letter in lower case
LowerOf == [C |-> "c", X |-> "x"]

RECURSIVE Slugify(_)
Slugify(name) ==
    IF name = <<>> THEN <<>>
    ELSE <<IF Head(name) \in DOMAIN LowerOf THEN LowerOf[Head(name)] ELSE Head(name)>>
         \o Slugify(Tail(name))

\* Math.random() * Math.pow(36, 6), truncated, is an integer of [0, 36^6), which
\* exceeds 2^31: a draw is held as <<hi, lo>>, standing for hi * 36^3 + lo
Pow36_3 == 46656
DrawSmall == <<0, 35>>           \* 35
DrawMid == <<1296, 0>>           \* 36^5
DrawBig == <<46655, 46655>>      \* 36^6 - 1
Draws == {DrawMid, DrawBig}

\* x | 0 : ToInt32, the value modulo 2^32 read as a signed 32-bit integer
\* (2^31 = 46028 * 36^3 + 1280 and 2^32 = 92056 * 36^3 + 2560)
ToInt32(d) ==
    IF d[1] < 46028 \/ (d[1] = 46028 /\ d[2] < 1280)
    THEN d[1] * Pow36_3 + d[2]
    ELSE (d[1] - 92056) * Pow36_3 + (d[2] - 2560)

Digits36 == <<"0", "1", "2", "3", "4", "5", "6", "7", "8", "9", "a", "b", "c",
              "d", "e", "f", "g", "h", "i", "j", "k", "l", "m", "n", "o", "p",
              "q", "r", "s", "t", "u", "v", "w", "x", "y", "z">>

\* the digits of a natural number in base 36
RECURSIVE NatBase36(_)
NatBase36(n) ==
    IF n < 36 THEN <<Digits36[n + 1]>>
    ELSE NatBase36(n \div 36) \o <<Digits36[(n % 36) + 1]>>

\* Number.prototype.toString(36): a minus sign and the digits of the magnitude
ToString36(v) ==
    IF v >= 0 THEN NatBase36(v)
    ELSE LET d == (36 - (v % 36)) % 36        \* last digit of -v
             q == (0 - (v + d)) \div 36       \* -v without its last digit
         IN  <<"-">> \o (IF q = 0 THEN <<>> ELSE NatBase36(q)) \o <<Digits36[d + 1]>>

\* line 73: slug(name) + "-" + (Math.random() * Math.pow(36, 6) | 0).toString(36)
MakeSlug(name, draw) == Slugify(name) \o <<"-">> \o ToString36(ToInt32(draw))

(* ------------------------- the adapter (store) ------------------------- *)
\* a document matches a query when it has every field of the query with the
\* query's value; tagList: { "$in": [tag] } asks for a tagList holding tag
Matches(d, query) ==
    \A f \in DOMAIN query :
        /\ Has(d, f)
        /\ IF f = "tagList" THEN d[f] \intersect query[f] # {} ELSE d[f] = query[f]

Matching(docs, query) == {d \in docs : Matches(d, query)}

\* sort: ["-createdAt"]: every order of the documents with createdAt descending
\* (the order of documents of equal createdAt is the adapter's)
Sorted(S) ==
    {s \in [1..Cardinality(S) -> S] :
        /\ \A i, j \in 1..Cardinality(S) : i < j => s[i] # s[j]
        /\ \A i, j \in 1..Cardinality(S) : i < j => s[i].createdAt >= s[j].createdAt}

Min(a, b) == IF a < b THEN a ELSE b

\* adapter.find(params): the sorted matching documents, offset skipped, cut at limit
Find(docs, params) ==
    {SubSeq(s, params.offset + 1, Min(Len(s), params.offset + params.limit)) :
        s \in Sorted(Matching(docs, params.query))}

\* adapter.count(countParams): limit and offset are null, the query is the same
Count(docs, countParams) == Cardinality(Matching(docs, countParams.query))

\* getById(id)
GetById(docs, id) == IF \E d \in docs : d._id = id THEN {d \in docs : d._id = id} ELSE {Null}

\* findOne ignores the slug and returns any stored document
FindBySlug_Any(docs, slug) == IF docs # {} THEN docs ELSE {Null}

\* findBySlug(slug): adapter.findOne({ slug }), one of the documents of that slug
FindBySlug(docs, slug) ==
    IF \E d \in docs : d.slug = slug THEN {d \in docs : d.slug = slug} ELSE {Null}

\* the update replaces the document by newData
UpdateById_Replace(docs, game, newData) ==
    (docs \ {game}) \union {Assign([_id |-> game._id], newData)}

\* adapter.updateById(_id, { "$set": newData }): the new collection
UpdateById(docs, game, newData) == (docs \ {game}) \union {Assign(game, newData)}

\* adapter.removeById(_id): the new collection, and the document it returns
RemoveById(docs, id) == {d \in docs : d._id # id}
Removed(docs, id) == CHOOSE d \in docs : d._id = id

(* ----------------------- populate and transform ------------------------ *)
Fields == {"_id", "name", "description", "createdAt", "updatedAt", "creator"}
Populates == {"author"}
UserFields == {"username", "bio", "image"}

\* users.get with fields username, bio, image
UserObject(id) == [f \in UserFields |-> IF f = "username" THEN id ELSE ""]

\* transformDocuments(ctx, { populate }, doc): the relations of populate that
\* settings.populates defines are resolved, then settings.fields are kept
TransformDocument(doc, populate) ==
    [f \in (DOMAIN doc) \intersect Fields |->
        IF f \in populate \intersect Populates THEN UserObject(doc[f]) ELSE doc[f]]

\* transformEntity
TransformEntity(entity) == entity

\* transformResult of one entity, and of an array of entities
TransformResult(entity) == [game |-> TransformEntity(entity)]
TransformResults(entities) ==
    [games |-> [i \in 1..Len(entities) |-> TransformEntity(entities[i])]]

(* ------------------------------ the cache ------------------------------ *)
\* String(n) of the numbers the calls pass
Numerals == <<"0", "1", "2", "3", "4", "5", "6", "7", "8", "9">>
Decimal(n) == Numerals[n + 1]

ListKeys == <<"#userID", "creator", "limit", "offset">>
ListByUserKeys == <<"#userID", "game", "limit", "offset">>

\* one part of a cache key: the meta or the parameter the key names, as text
KeyPart(key, userID, params) ==
    IF key = "#userID" THEN userID
    ELSE IF ~Has(params, key) THEN "undefined"
    ELSE IF key \in {"limit", "offset"} THEN Decimal(params[key])
    ELSE params[key]

\* the cacher's key of a call: the action's name and the parts its keys name
CacheKey(action, keys, userID, params) ==
    <<action>> \o [i \in 1..Len(keys) |-> KeyPart(keys[i], userID, params)]

EmptyCache == <<>>

\* entityChanged(type, json, ctx): the entries of the service are dropped
EntityChanged(c) == EmptyCache

(* ------------------------------ the calls ------------------------------ *)
\* settings.entityValidator: name and description are strings of length >= 1
ValidateEntity(entity) ==
    /\ Has(entity, "name") /\ entity.name # Empty
    /\ Has(entity, "description") /\ entity.description # ""

\* params of update: name and description are optional, of length >= 1 if given
ValidatePatch(patch) ==
    /\ Has(patch, "name") => patch.name # Empty
    /\ Has(patch, "description") => patch.description # ""

\* the check of the creator lets every actor pass
IsCreator_Any(game, actor) == TRUE

\* game.creator !== ctx.meta.user._id.toString() is false
IsCreator(game, actor) == game.creator = actor

\* new Date(): the time of the last reading, or a later one
Clock(t) == {t, t + 1} \intersect (0..MaxTime)

\* limit and offset of list and listByUser: the parameter if truthy, else 20 and 0
Limit(params) == IF Has(params, "limit") /\ params.limit # 0 THEN params.limit ELSE 20
Offset(params) == IF Has(params, "offset") /\ params.offset # 0 THEN params.offset ELSE 0

\* countParams: a copy of params with a truthy limit and offset set to null
CountParams(p) ==
    [p EXCEPT !.limit = IF p.limit # 0 THEN Null ELSE p.limit,
              !.offset = IF p.offset # 0 THEN Null ELSE p.offset]

\* the query of list: a truthy tag adds a condition, nothing else does
ListQuery(params) ==
    IF Has(params, "tag") /\ Truthy(params.tag) THEN [tagList |-> {params.tag}] ELSE NoParams

\* the query of listByUser
ListByUserQuery(params) == [game |-> params.creator]

\* the cacher's set(key, value) keeps nothing
CacheSet_Skip(c, key, value, by) == c

\* the cacher's set(key, value); by notes the call that computed the value, the
\* count of store writes when its rows and its count were read, and the number of
\* matching games in the store its rows were read from
CacheSet(c, key, value, by) ==
    [k \in (DOMAIN c) \union {key} |-> IF k = key THEN [value |-> value, by |-> by] ELSE c[k]]

(* ---------------- the handlers, from one await to the next -------------- *)
\* A handler runs until it awaits the store, the cacher or another service; other
\* handlers run meanwhile, and it resumes with the answer. flight.handlers holds
\* the suspended handlers with their local variables; pc names the await.
\* The awaits on validateEntity, transformDocuments and transformResult (lines 71,
\* 79-80, 126-127, 201-202, 258-259) read and write nothing that another handler
\* changes or reads; each is passed within the step that follows it.
\* flight.begun counts the calls and events received, flight.writes the writes the
\* store has applied, flight.returned the writes whose call has returned;
\* flight.quiet tells that no step of a create, update or remove and no event was
\* taken since the last response of a list or listByUser.
Mutations == {"create", "update", "remove"}
CachedActions == {"games.list", "games.listByUser"}
NoFlight == [handlers |-> <<>>, begun |-> 0, writes |-> 0, returned |-> 0, quiet |-> FALSE]
Handlers == flight.handlers
With(i, h) == [j \in (DOMAIN Handlers) \union {i} |-> IF j = i THEN h ELSE Handlers[j]]
Without(i) == [j \in (DOMAIN Handlers) \ {i} |-> Handlers[j]]
At(i, op, pc) == i \in DOMAIN Handlers /\ Handlers[i].op = op /\ Handlers[i].pc = pc

\* a call may begin while fewer than MaxFlight handlers are suspended
CanBegin == flight.begun < MaxCalls /\ Cardinality(DOMAIN Handlers) < MaxFlight

\* the flight after a call that is answered before its first await, after a call
\* that awaits, after a handler moved to its next await, and after a handler ended
Quiet(op) == flight.quiet /\ op \notin Mutations
Answered == [flight EXCEPT !.begun = @ + 1, !.quiet = FALSE]
Begun(h) ==
    [flight EXCEPT !.begun = @ + 1, !.handlers = With(flight.begun + 1, h), !.quiet = Quiet(h.op)]
Moved(i, h) == [flight EXCEPT !.handlers = With(i, h), !.quiet = Quiet(h.op)]
Ended(i) == [flight EXCEPT !.handlers = Without(i), !.quiet = Quiet(Handlers[i].op)]
Later(a, b) == IF a > b THEN a ELSE b

\* the response of a call, as last keeps it
\* seq: the number of responses so far; call: the call, for the cached actions;
\* reads: the adapter reads (find, count) it made; hit: answered from the cache;
\* from: the by of the cached or computed response; dropped: the cache entries
\* the call dropped
Outcome(op, status, result, call, reads, hit, from, dropped) ==
    [seq |-> last.seq + 1, op |-> op, status |-> status, result |-> result,
     call |-> call, reads |-> reads, hit |-> hit, from |-> from, dropped |-> dropped]

Written(op, result, dropped) == Outcome(op, "ok", result, Null, 0, FALSE, Null, dropped)

\* the error path also cleans the cache
Failed_Cleaning(op, status) ==
    /\ last' = Outcome(op, status, Null, Null, 0, FALSE, Null, 0)
    /\ cache' = EmptyCache
    /\ UNCHANGED <<store, nextId, now>>

\* a thrown error: the call rejects, nothing after the throw is executed
Failed(op, status) ==
    /\ last' = Outcome(op, status, Null, Null, 0, FALSE, Null, 0)
    /\ UNCHANGED <<store, nextId, now, cache>>

\* create, lines 70-78: validateEntity, the entity with its slug, creator and
\* times, and the request adapter.insert(entity)
createBegin(actor, game, draw) ==
    IF ~ValidateEntity(game) THEN Failed("create", "ValidationError") /\ flight' = Answered
    ELSE
        \E t1 \in Clock(now) : \E t2 \in Clock(t1) :
            LET entity == Assign(game, [slug |-> MakeSlug(game.name, draw),
                                        creator |-> actor,
                                        createdAt |-> t1,
                                        updatedAt |-> t2])
            IN  /\ now' = t2
                /\ flight' = Begun([op |-> "create", pc |-> "insert", entity |-> entity,
                                    wrote |-> 0, dropped |-> 0])
                /\ UNCHANGED <<store, nextId, cache, last>>

\* the store applies adapter.insert (line 78) and answers the document with its _id
createInsert(i) ==
    /\ At(i, "create", "insert")
    /\ LET doc == Assign(Handlers[i].entity, [_id |-> nextId]) IN
        /\ store' = store \union {doc}
        /\ nextId' = nextId + 1
        /\ flight' = [Moved(i, [Handlers[i] EXCEPT !.pc = "inserted", !.entity = doc,
                                                   !.wrote = flight.writes + 1])
                        EXCEPT !.writes = @ + 1]
    /\ UNCHANGED <<now, cache, last>>

\* create, lines 79-81: transformDocuments, transformResult, and the awaited
\* entityChanged, which cleans the cache
createChanged(i) ==
    /\ At(i, "create", "inserted")
    /\ cache' = EntityChanged(cache)
    /\ flight' = Moved(i, [Handlers[i] EXCEPT !.pc = "changed",
                                              !.dropped = Cardinality(DOMAIN cache)])
    /\ UNCHANGED <<store, nextId, now, last>>

\* create, line 82: the return of the transformed document
createReturn(i) ==
    /\ At(i, "create", "changed")
    /\ last' = Written("create",
                       TransformResult(TransformDocument(Handlers[i].entity, {"creator"})),
                       Handlers[i].dropped)
    /\ flight' = [Ended(i) EXCEPT !.returned = Later(@, Handlers[i].wrote)]
    /\ UNCHANGED <<store, nextId, now, cache>>

\* update, lines 99-114: the params validation, newData with the time read, and
\* the request getById(id)
updateBegin(actor, id, patch) ==
    IF ~ValidatePatch(patch) THEN Failed("update", "ValidationError") /\ flight' = Answered
    ELSE \E t \in Clock(now) :
        /\ now' = t
        /\ flight' = Begun([op |-> "update", pc |-> "load", actor |-> actor, id |-> id,
                            newData |-> Assign(patch, [updatedAt |-> t]),
                            game |-> Null, doc |-> Null, wrote |-> 0])
        /\ UNCHANGED <<store, nextId, cache, last>>

\* update, lines 114-125: the answer of getById, the 404 and the ForbiddenError,
\* and the request adapter.updateById(game._id, { "$set": newData })
updateLoad(i) ==
    /\ At(i, "update", "load")
    /\ \E game \in GetById(store, Handlers[i].id) :
        IF game = Null THEN Failed("update", "NotFound") /\ flight' = Ended(i)
        ELSE IF ~IsCreator(game, Handlers[i].actor)
        THEN Failed("update", "Forbidden") /\ flight' = Ended(i)
        ELSE
            /\ flight' = Moved(i, [Handlers[i] EXCEPT !.pc = "write", !.game = game])
            /\ UNCHANGED <<store, nextId, now, cache, last>>

\* the store applies adapter.updateById (line 125): the document of that _id is
\* updated and answered if the store still has it, else the answer is null
updateWrite(i) ==
    /\ At(i, "update", "write")
    /\ LET h == Handlers[i]
           found == {d \in store : d._id = h.game._id}
       IN  IF found = {}
           THEN /\ flight' = Moved(i, [h EXCEPT !.pc = "written", !.doc = Null])
                /\ UNCHANGED store
           ELSE LET d == CHOOSE d \in found : TRUE IN
                /\ store' = UpdateById(store, d, h.newData)
                /\ flight' = [Moved(i, [h EXCEPT !.pc = "written",
                                                 !.doc = Assign(d, h.newData),
                                                 !.wrote = flight.writes + 1])
                                EXCEPT !.writes = @ + 1]
    /\ UNCHANGED <<nextId, now, cache, last>>

\* update, lines 126-129: transformDocuments, transformResult, entityChanged called
\* and not awaited, and the return: the cache is cleaned by the time the caller has
\* the response (sent), or later
updateReturn(i) ==
    /\ At(i, "update", "written")
    /\ LET h == Handlers[i]
           entity == IF h.doc = Null THEN Null ELSE TransformDocument(h.doc, {"creator"})
       IN  \E sent \in BOOLEAN :
            /\ cache' = IF sent THEN EntityChanged(cache) ELSE cache
            /\ last' = Written("update", TransformResult(entity),
                               IF sent THEN Cardinality(DOMAIN cache) ELSE 0)
            /\ flight' = [(IF sent THEN Ended(i) ELSE Moved(i, [h EXCEPT !.pc = "returned"]))
                            EXCEPT !.returned = Later(@, h.wrote)]
    /\ UNCHANGED <<store, nextId, now>>

\* the entityChanged of an update that has returned cleans the cache
updateChanged(i) ==
    /\ At(i, "update", "returned")
    /\ cache' = EntityChanged(cache)
    /\ flight' = Ended(i)
    /\ UNCHANGED <<store, nextId, now, last>>

\* remove, line 285: the request findBySlug(id)
removeBegin(actor, slug) ==
    /\ flight' = Begun([op |-> "remove", pc |-> "find", actor |-> actor, slug |-> slug,
                        entity |-> Null, res |-> Null, wrote |-> 0, dropped |-> 0])
    /\ UNCHANGED <<store, nextId, now, cache, last>>

\* remove, lines 285-295: the answer of findBySlug, the 404 and the ForbiddenError,
\* and the request adapter.removeById(entity._id)
removeFind(i) ==
    /\ At(i, "remove", "find")
    /\ \E entity \in FindBySlug(store, Handlers[i].slug) :
        IF entity = Null THEN Failed("remove", "NotFound") /\ flight' = Ended(i)
        ELSE IF ~IsCreator(entity, Handlers[i].actor)
        THEN Failed("remove", "Forbidden") /\ flight' = Ended(i)
        ELSE
            /\ flight' = Moved(i, [Handlers[i] EXCEPT !.pc = "remove", !.entity = entity])
            /\ UNCHANGED <<store, nextId, now, cache, last>>

\* the store applies adapter.removeById (line 295) and answers the removed
\* document, or null if the store has it no more
removeWrite(i) ==
    /\ At(i, "remove", "remove")
    /\ LET h == Handlers[i]
           stored == \E d \in store : d._id = h.entity._id
       IN  /\ store' = RemoveById(store, h.entity._id)
           /\ flight' = [Moved(i, [h EXCEPT
                                    !.pc = "removed",
                                    !.res = IF stored THEN Removed(store, h.entity._id) ELSE Null,
                                    !.wrote = IF stored THEN flight.writes + 1 ELSE 0])
                           EXCEPT !.writes = IF stored THEN @ + 1 ELSE @]
    /\ UNCHANGED <<nextId, now, cache, last>>

\* remove, line 296: the awaited entityChanged, which cleans the cache
removeChanged(i) ==
    /\ At(i, "remove", "removed")
    /\ cache' = EntityChanged(cache)
    /\ flight' = Moved(i, [Handlers[i] EXCEPT !.pc = "changed",
                                              !.dropped = Cardinality(DOMAIN cache)])
    /\ UNCHANGED <<store, nextId, now, last>>

\* remove, line 298: the return of the answer of removeById
removeReturn(i) ==
    /\ At(i, "remove", "changed")
    /\ last' = Written("remove", Handlers[i].res, Handlers[i].dropped)
    /\ flight' = [Ended(i) EXCEPT !.returned = Later(@, Handlers[i].wrote)]
    /\ UNCHANGED <<store, nextId, now, cache>>

\* a cached action, up to the handler's Promise.all: the cached response if the
\* key is in the cache, else the requests adapter.find(params) and
\* adapter.count(countParams)
cachedBegin(op, keys, userID, params, query, countField) ==
    LET key == CacheKey(op, keys, userID, params)
        call == [op |-> op, actor |-> userID, req |-> params]
    IN
    IF key \in DOMAIN cache
    THEN /\ last' = Outcome(op, "ok", cache[key].value, call, 0, TRUE, cache[key].by, 0)
         /\ flight' = [Answered EXCEPT !.quiet = TRUE]
         /\ UNCHANGED <<store, nextId, now, cache>>
    ELSE /\ flight' = Begun([op |-> op, pc |-> "reading", key |-> key, call |-> call,
                             p |-> [limit |-> Limit(params), offset |-> Offset(params),
                                    query |-> query],
                             countField |-> countField,
                             done |-> {}, rows |-> <<>>, count |-> 0,
                             rowsAt |-> 0, countAt |-> 0, matched |-> 0])
         /\ UNCHANGED <<store, nextId, now, cache, last>>

\* actions.list and actions.listByUser
listBegin(userID, params) ==
    cachedBegin("games.list", ListKeys, userID, params, ListQuery(params), "gamesCount")

listByUserBegin(userID, params) ==
    cachedBegin("games.listByUser", ListByUserKeys, userID, params, ListByUserQuery(params),
                "commentsCount")

Reading(i) ==
    /\ i \in DOMAIN Handlers
    /\ Handlers[i].pc = "reading"

\* the store answers adapter.find(params) (lines 194, 251)
readFind(i) ==
    /\ Reading(i)
    /\ "find" \notin Handlers[i].done
    /\ \E rows \in Find(store, Handlers[i].p) :
        flight' = Moved(i, [Handlers[i] EXCEPT
                                !.done = @ \union {"find"},
                                !.rows = rows,
                                !.rowsAt = flight.writes,
                                !.matched = Count(store, CountParams(Handlers[i].p))])
    /\ UNCHANGED <<store, nextId, now, cache, last>>

\* the store answers adapter.count(countParams) (lines 197, 254)
readCount(i) ==
    /\ Reading(i)
    /\ "count" \notin Handlers[i].done
    /\ flight' = Moved(i, [Handlers[i] EXCEPT
                                !.done = @ \union {"count"},
                                !.count = Count(store, CountParams(Handlers[i].p)),
                                !.countAt = flight.writes])
    /\ UNCHANGED <<store, nextId, now, cache, last>>

\* list and listByUser after their Promise.all (lines 201-204, 258-261):
\* transformDocuments, transformResult, the count set on the response, the return;
\* the cacher keeps the response
readJoin(i) ==
    /\ Reading(i)
    /\ Handlers[i].done = {"find", "count"}
    /\ LET h == Handlers[i]
           docs == [k \in 1..Len(h.rows) |-> TransformDocument(h.rows[k], {"creator"})]
           r == Assign(TransformResults(docs), [c \in {h.countField} |-> h.count])
           by == [call |-> h.call, rowsAt |-> h.rowsAt, countAt |-> h.countAt,
                  matched |-> h.matched]
       IN  /\ cache' = CacheSet(cache, h.key, r, by)
           /\ last' = Outcome(h.op, "ok", r, h.call, 2, FALSE, by, 0)
    /\ flight' = [Ended(i) EXCEPT !.quiet = TRUE]
    /\ UNCHANGED <<store, nextId, now>>

\* the awaits on a request to the store that the store has not answered
StoreAwaits == {"insert", "load", "write", "find", "remove", "reading"}
Awaiting(i) ==
    /\ i \in DOMAIN Handlers
    /\ Handlers[i].pc \in StoreAwaits
    /\ Handlers[i].pc = "reading" => Handlers[i].done # {"find", "count"}

\* the rejected list or listByUser leaves the rows it has in the cache
Rejected_Cached(h) ==
    /\ last' = Outcome(h.op, "StoreError", Null, Null, 0, FALSE, Null, 0)
    /\ cache' = IF h.pc = "reading"
                THEN CacheSet(cache, h.key, TransformResults(h.rows), Null)
                ELSE cache
    /\ UNCHANGED <<store, nextId, now>>

\* the await of a rejected request throws: the handler ends with the store's error
Rejected(h) == Failed(h.op, "StoreError")

\* the store rejects the request a handler awaits; the request has no effect
storeRejects(i) ==
    /\ Awaiting(i)
    /\ Rejected(Handlers[i])
    /\ flight' = Ended(i)

\* the event cache.clean.users of CacheCleanerMixin: the service's cache is cleaned
cacheCleanUsers ==
    /\ cache' = EmptyCache
    /\ flight' = Answered
    /\ UNCHANGED <<store, nextId, now, last>>

(* ------------------------------ the inputs ----------------------------- *)
CreateGames ==
    {[name |-> Chess, description |-> "d"],
     [name |-> Empty, description |-> "d"]}

Patches ==
    {[description |-> "x"],
     [name |-> NameX],
     [creator |-> "B"],
     [tagList |-> {"t"}],
     [slug |-> MakeSlug(NameX, DrawSmall), createdAt |-> 0],
     [name |-> Empty]}

ListParams ==
    {NoParams,
     [limit |-> 1],
     [limit |-> 1, offset |-> 1],
     [limit |-> 0],
     [tag |-> "t"],
     [tag |-> ""],
     [creator |-> "A"]}

ListByUserParams ==
    {[creator |-> "A"], [creator |-> "B"]}

ListUsers == {"A", NoUser}

Slugs == {d.slug : d \in store} \union {MakeSlug(NameX, DrawSmall)}
Ids == {d._id : d \in store} \union {nextId}

(* --------------------------- the specification ------------------------- *)
\* the service after its start: an empty collection, an empty cache, no call yet
Init ==
    /\ store = {}
    /\ nextId = 1
    /\ now = 0
    /\ cache = EmptyCache
    /\ last = [seq |-> 0, op |-> "none", status |-> "ok", result |-> Null, call |-> Null,
               reads |-> 0, hit |-> FALSE, from |-> Null, dropped |-> 0]
    /\ flight = NoFlight

CreateBegin ==
    CanBegin /\ \E actor \in Users, game \in CreateGames, draw \in Draws :
        createBegin(actor, game, draw)
CreateInsert == \E i \in DOMAIN Handlers : createInsert(i)
CreateChanged == \E i \in DOMAIN Handlers : createChanged(i)
CreateReturn == \E i \in DOMAIN Handlers : createReturn(i)
UpdateBegin ==
    CanBegin /\ \E actor \in Users, id \in Ids, patch \in Patches : updateBegin(actor, id, patch)
UpdateLoad == \E i \in DOMAIN Handlers : updateLoad(i)
UpdateWrite == \E i \in DOMAIN Handlers : updateWrite(i)
UpdateReturn == \E i \in DOMAIN Handlers : updateReturn(i)
UpdateChanged == \E i \in DOMAIN Handlers : updateChanged(i)
RemoveBegin == CanBegin /\ \E actor \in Users, slug \in Slugs : removeBegin(actor, slug)
RemoveFind == \E i \in DOMAIN Handlers : removeFind(i)
RemoveWrite == \E i \in DOMAIN Handlers : removeWrite(i)
RemoveChanged == \E i \in DOMAIN Handlers : removeChanged(i)
RemoveReturn == \E i \in DOMAIN Handlers : removeReturn(i)
ListBegin == CanBegin /\ \E userID \in ListUsers, params \in ListParams : listBegin(userID, params)
ListByUserBegin ==
    CanBegin /\ \E userID \in ListUsers, params \in ListByUserParams :
        listByUserBegin(userID, params)
ReadFind == \E i \in DOMAIN Handlers : readFind(i)
ReadCount == \E i \in DOMAIN Handlers : readCount(i)
ReadJoin == \E i \in DOMAIN Handlers : readJoin(i)
StoreRejects == \E i \in DOMAIN Handlers : storeRejects(i)
CacheCleanUsers == CanBegin /\ cacheCleanUsers

Next ==
    \/ CreateBegin
    \/ CreateInsert
    \/ CreateChanged
    \/ CreateReturn
    \/ UpdateBegin
    \/ UpdateLoad
    \/ UpdateWrite
    \/ UpdateReturn
    \/ UpdateChanged
    \/ RemoveBegin
    \/ RemoveFind
    \/ RemoveWrite
    \/ RemoveChanged
    \/ RemoveReturn
    \/ ListBegin
    \/ ListByUserBegin
    \/ ReadFind
    \/ ReadCount
    \/ ReadJoin
    \/ CacheCleanUsers

Spec == Init /\ [][Next]_vars

\* creates only
NextCreate ==
    \/ CreateBegin
    \/ CreateInsert
    \/ CreateChanged
    \/ CreateReturn

SpecCreate == Init /\ [][NextCreate]_vars

\* the slug of a first create, over draws around the values where the number of
\* base-36 digits and the sign of the truncated product change:
\* 0, 35, 36^5 - 1, 36^5, 2^31 - 1, 2^31, 36^6 - 1
SlugDraws ==
    {<<hi, lo>> : hi \in {0, 1, 1295, 1296, 46027, 46028, 46655},
                  lo \in {0, 35, 1279, 1280, 46654, 46655}}
CreateDrawn ==
    /\ CanBegin
    /\ store = {}
    /\ Handlers = <<>>
    /\ \E actor \in Users, game \in CreateGames, draw \in SlugDraws : createBegin(actor, game, draw)

NextSlug ==
    \/ CreateDrawn
    \/ CreateInsert
    \/ CreateChanged
    \/ CreateReturn

SpecSlug == Init /\ [][NextSlug]_vars

\* calls that overlap on one stored game of A, created by a call that has returned
StoredGame ==
    [_id |-> 1, name |-> Chess, description |-> "d", slug |-> MakeSlug(Chess, DrawBig),
     creator |-> "A", createdAt |-> 0, updatedAt |-> 0]

InitOverlap ==
    /\ store = {StoredGame}
    /\ nextId = 2
    /\ now = 0
    /\ cache = EmptyCache
    /\ last = [seq |-> 1, op |-> "create", status |-> "ok",
               result |-> TransformResult(TransformDocument(StoredGame, {"creator"})),
               call |-> Null, reads |-> 0, hit |-> FALSE, from |-> Null, dropped |-> 0]
    /\ flight = [NoFlight EXCEPT !.writes = 1, !.returned = 1]

CanOverlap == flight.begun < MaxCalls
CreateOne == CanOverlap /\ createBegin("A", [name |-> Chess, description |-> "d"], DrawMid)
UpdateOne == CanOverlap /\ \E id \in Ids \ {nextId} : updateBegin("A", id, [description |-> "x"])
RemoveOne == CanOverlap /\ \E slug \in Slugs \ {MakeSlug(NameX, DrawSmall)} : removeBegin("A", slug)
ListOne == CanOverlap /\ listBegin("A", NoParams)

NextOverlap ==
    \/ CreateOne
    \/ CreateInsert
    \/ CreateChanged
    \/ CreateReturn
    \/ UpdateOne
    \/ UpdateLoad
    \/ UpdateWrite
    \/ UpdateReturn
    \/ UpdateChanged
    \/ RemoveOne
    \/ RemoveFind
    \/ RemoveWrite
    \/ RemoveChanged
    \/ RemoveReturn
    \/ ListOne
    \/ ReadFind
    \/ ReadCount
    \/ ReadJoin

SpecOverlap == InitOverlap /\ [][NextOverlap]_vars

\* few calls that overlap freely, by owner and non-owner, valid and invalid, on
\* stored and absent games, with a store that may reject any request
FewGames == CreateGames
FewPatches == {[description |-> "x"], [name |-> Empty]}
FewListParams == {NoParams}
FewListByUserParams == {[creator |-> "A"]}
CanFew == flight.begun < MaxFew

CreateFew == CanFew /\ \E game \in FewGames : createBegin("A", game, DrawMid)
UpdateFew ==
    CanFew /\ \E actor \in Users, id \in Ids, patch \in FewPatches : updateBegin(actor, id, patch)
RemoveFew == CanFew /\ \E actor \in Users, slug \in Slugs : removeBegin(actor, slug)
ListFew == CanFew /\ \E params \in FewListParams : listBegin("A", params)
ListByUserFew == CanFew /\ \E params \in FewListByUserParams : listByUserBegin("A", params)
CacheCleanFew == CanFew /\ cacheCleanUsers

NextFew ==
    \/ CreateFew
    \/ CreateInsert
    \/ CreateChanged
    \/ CreateReturn
    \/ UpdateFew
    \/ UpdateLoad
    \/ UpdateWrite
    \/ UpdateReturn
    \/ UpdateChanged
    \/ RemoveFew
    \/ RemoveFind
    \/ RemoveWrite
    \/ RemoveChanged
    \/ RemoveReturn
    \/ ListFew
    \/ ListByUserFew
    \/ ReadFind
    \/ ReadCount
    \/ ReadJoin
    \/ StoreRejects
    \/ CacheCleanFew

SpecFew == InitOverlap /\ [][NextFew]_vars


(* ------------------------------ the claims ----------------------------- *)
Called == last'.seq # last.seq

\* the handler that takes the step
Stepped(i) ==
    /\ i \in DOMAIN Handlers
    /\ i \notin DOMAIN Handlers' \/ Handlers'[i] # Handlers[i]

\* C1: an update whose actor is not the creator of the stored game of that id
\* fails with Forbidden when the game is loaded, the handler ends there, and no
\* step of it up to there changes the store; only handlers of the creator of the
\* loaded game go on to the write
C1_NonOwnerUpdateForbidden ==
    /\ [][\A i \in DOMAIN Handlers :
            (/\ At(i, "update", "load")
             /\ \E d \in store : d._id = Handlers[i].id /\ d.creator # Handlers[i].actor
             /\ updateLoad(i))
            => /\ last'.op = "update"
               /\ last'.status = "Forbidden"
               /\ last'.result = Null
               /\ store' = store
               /\ i \notin DOMAIN Handlers']_vars
    /\ [][flight'.begun # flight.begun => store' = store]_vars
    /\ [](\A i \in DOMAIN Handlers :
            (Handlers[i].op = "update" /\ Handlers[i].pc # "load")
                => Handlers[i].game.creator = Handlers[i].actor)

\* a non-owner's update was refused while the game is stored
C1_Witness ==
    /\ last.op = "update"
    /\ last.status = "Forbidden"
    /\ \E d \in store : d.creator = "A"

\* C2: no step changes the creator of a stored game
C2_CreatorImmutable ==
    [][\A d \in store : \A e \in store' : e._id = d._id => e.creator = d.creator]_vars

\* C3: when a create, update or remove returns success, the cache holds no
\* response read before the write of that call, and a list or listByUser call
\* answered next is not answered with a cached response read before that write
C3_MutationDropsCache ==
    /\ [][\A i \in DOMAIN Handlers :
            (/\ Called
             /\ last'.op \in Mutations
             /\ last'.status = "ok"
             /\ Stepped(i))
            => \A k \in DOMAIN cache' :
                /\ cache'[k].by.rowsAt >= Handlers[i].wrote
                /\ cache'[k].by.countAt >= Handlers[i].wrote]_vars
    /\ [][(/\ last.op \in Mutations
           /\ last.status = "ok"
           /\ Called
           /\ last'.op \in CachedActions
           /\ last'.hit)
          => last'.from.rowsAt >= flight.returned]_vars

\* C4: a list call that begins after a list call of the same actor and parameters
\* has returned, with no step of a create, update or remove and no event in
\* between, is answered at once with the same response and starts no read of the store
C4_SecondListFromCache ==
    [][(/\ flight.quiet
        /\ last.op = "games.list"
        /\ last.status = "ok"
        /\ flight'.begun # flight.begun
        /\ listBegin(last.call.actor, last.call.req))
       => /\ Called
          /\ last'.hit
          /\ last'.result = last.result
          /\ last'.reads = 0
          /\ Handlers' = Handlers]_vars

\* a list call over a store that holds a game was answered from the cache with the
\* response of the list call before it
C4_Witness ==
    /\ last.op = "games.list"
    /\ last.hit
    /\ last.from.call = last.call
    /\ flight.quiet
    /\ store # {}

\* C5: a call answered from the cache is answered with a response computed for
\* the same actor and the same parameters
C5_KeyCoversParams ==
    last.hit => last.from.call = last.call

\* C6: no two stored games have the same slug
C6_SlugsUnique ==
    \A d \in store : \A e \in store : d._id # e._id => d.slug # e.slug

\* the games that match the filter of a list call: creator and tag, when given
Filtered(docs, params) ==
    {d \in docs :
        /\ Has(params, "creator") => d.creator = params.creator
        /\ (Has(params, "tag") /\ Truthy(params.tag))
            => (Has(d, "tagList") /\ params.tag \in d.tagList)}

Max(a, b) == IF a > b THEN a ELSE b

DescendingCreatedAt(games) ==
    \A i, j \in 1..Len(games) : i < j => games[i].createdAt >= games[j].createdAt

\* the response of a list or listByUser call that read its rows and its count
\* from the store as it is now
ReadNow(op) ==
    /\ Called
    /\ last'.op = op
    /\ last'.status = "ok"
    /\ ~last'.hit
    /\ last'.from.rowsAt = flight.writes
    /\ last'.from.countAt = flight.writes

\* C7: a list call computed from the store returns min(L, max(0, N - O)) games, all
\* matching the filter, createdAt descending, and a count of N, for N matching games,
\* limit L (20 if not given) and offset O (0 if not given)
C7_ListPage ==
    [][ReadNow("games.list") =>
        LET params == last'.call.req
            L == IF Has(params, "limit") THEN params.limit ELSE 20
            O == IF Has(params, "offset") THEN params.offset ELSE 0
            matching == Filtered(store, params)
            N == Cardinality(matching)
            games == last'.result.games
        IN  /\ Len(games) = Min(L, Max(0, N - O))
            /\ last'.result.gamesCount = N
            /\ DescendingCreatedAt(games)
            /\ \A i \in 1..Len(games) : \E d \in matching : d._id = games[i]._id]_vars

\* C8: a listByUser call computed from the store returns only games of the creator
\* asked for, and the count of all the stored games of that creator
C8_ListByUserOfCreator ==
    [][ReadNow("games.listByUser") =>
        LET C == last'.call.req.creator
            games == last'.result.games
        IN  /\ \A i \in 1..Len(games) : games[i].creator = C
            /\ last'.result.commentsCount = Cardinality({d \in store : d.creator = C})
            /\ DescendingCreatedAt(games)]_vars

\* C9: the write of an update leaves every field of the stored game that the patch
\* does not carry, but updatedAt, as it is, sets the fields the patch carries, and
\* leaves every other game as it is; the update then returns the written game
C9_PartialMerge ==
    /\ [][\A i \in DOMAIN Handlers :
            (At(i, "update", "write") /\ updateWrite(i)) =>
                LET id == Handlers[i].game._id
                    newData == Handlers[i].newData
                IN  /\ Cardinality(store') = Cardinality(store)
                    /\ \A d \in store :
                        IF d._id # id THEN d \in store'
                        ELSE \E e \in store' :
                            /\ e._id = id
                            /\ DOMAIN e = (DOMAIN d) \union (DOMAIN newData)
                            /\ \A f \in (DOMAIN d) \ (DOMAIN newData) : e[f] = d[f]
                            /\ \A f \in DOMAIN newData : e[f] = newData[f]
                            /\ Handlers'[i].doc = e]_vars
    /\ [][\A i \in DOMAIN Handlers :
            (At(i, "update", "written") /\ updateReturn(i)) =>
                /\ last'.status = "ok"
                /\ Handlers[i].doc # Null
                    => \A f \in DOMAIN last'.result.game :
                        last'.result.game[f] = Handlers[i].doc[f]
                /\ store' = store]_vars

\* the patch { description: "x" } was applied and the name is the one of create
C9_Witness ==
    /\ last.op = "update"
    /\ last.status = "ok"
    /\ last.result.game # Null
    /\ last.result.game.description = "x"
    /\ last.result.game.name = Chess
    /\ \E d \in store : d.description = "x" /\ d.name = Chess

\* C10: the write of a remove of a slug by the owner removes the game found,
\* which the remove returns, and that game alone, and leaves no game of that slug
\* in the store
C10_RemoveBySlug ==
    [][\A i \in DOMAIN Handlers :
        (At(i, "remove", "remove") /\ removeWrite(i)) =>
            LET res == Handlers'[i].res IN
            /\ res \in store
            /\ res.slug = Handlers[i].slug
            /\ res.creator = Handlers[i].actor
            /\ store' = store \ {res}
            /\ FindBySlug(store', Handlers[i].slug) = {Null}]_vars

\* C11: a remove of a slug that no stored game has fails with NotFound, a remove of
\* a slug whose stored games all have another creator than the actor fails with
\* Forbidden, both when the store answers findBySlug; a remove that fails leaves
\* the store as it is, and only handlers of the creator of the found game go on
\* to the write
C11_RemoveRefused ==
    /\ [][\A i \in DOMAIN Handlers :
            (At(i, "remove", "find") /\ removeFind(i)) =>
                LET slug == Handlers[i].slug
                    actor == Handlers[i].actor
                IN  /\ (\A d \in store : d.slug # slug)
                        => (/\ last'.op = "remove"
                            /\ last'.status = "NotFound"
                            /\ store' = store
                            /\ i \notin DOMAIN Handlers')
                    /\ ((\E d \in store : d.slug = slug)
                        /\ (\A d \in store : d.slug = slug => d.creator # actor))
                        => (/\ last'.op = "remove"
                            /\ last'.status = "Forbidden"
                            /\ store' = store
                            /\ i \notin DOMAIN Handlers')]_vars
    /\ [][(Called /\ last'.op = "remove" /\ last'.status # "ok") => store' = store]_vars
    /\ [](\A i \in DOMAIN Handlers :
            (Handlers[i].op = "remove" /\ Handlers[i].pc # "find")
                => (/\ Handlers[i].entity.creator = Handlers[i].actor
                    /\ Handlers[i].entity.slug = Handlers[i].slug))

\* a remove by another actor than the creator was refused while the game is stored
C11_Witness ==
    /\ last.op = "remove"
    /\ last.status = "Forbidden"
    /\ \E d \in store : d.creator = "A"

\* C12: the updatedAt of a stored game never decreases and is never earlier than
\* its createdAt, and the game a successful update returns has an updatedAt
\* strictly greater than its createdAt
C12_UpdatedAtMonotone ==
    /\ [](\A d \in store : d.updatedAt >= d.createdAt)
    /\ [][\A d \in store : \A e \in store' : e._id = d._id => e.updatedAt >= d.updatedAt]_vars
    /\ [][(Called /\ last'.op = "update" /\ last'.status = "ok" /\ last'.result.game # Null)
            => last'.result.game.updatedAt > last'.result.game.createdAt]_vars

\* C13: no step changes the slug or the createdAt of a stored game
C13_SlugAndCreatedAtFixed ==
    [][\A d \in store : \A e \in store' :
        e._id = d._id => (e.slug = d.slug /\ e.createdAt = d.createdAt)]_vars

\* C14: the slug of every stored game is the slugified name, a hyphen, and a suffix
\* of exactly six characters of 0-9a-z, the suffix being the base-36 print of the
\* draw times 36^6 truncated to a signed 32-bit integer
C14_SlugSuffix ==
    \A d \in store :
        \E k \in 1..Len(d.slug) :
            LET suffix == SubSeq(d.slug, k + 1, Len(d.slug)) IN
            /\ SubSeq(d.slug, 1, k - 1) = Slugify(d.name)
            /\ d.slug[k] = "-"
            /\ Len(suffix) = 6
            /\ \A i \in 1..Len(suffix) : \E n \in 1..Len(Digits36) : suffix[i] = Digits36[n]
            /\ \E draw \in SlugDraws : suffix = ToString36(ToInt32(draw))

\* C15: a list or listByUser call that missed the cache responds only when the
\* store has answered its find and its count, with the rows and the count it was
\* answered; when the store rejects one of the two, the call fails with the
\* store's error, returns nothing and leaves the cache as it is; every cached
\* response holds rows and a count
C15_ReadsJoinOrFail ==
    /\ [][\A i \in DOMAIN Handlers :
            (Reading(i) /\ Stepped(i) /\ Called /\ last'.status = "ok") =>
                /\ Handlers[i].done = {"find", "count"}
                /\ last'.op = Handlers[i].op
                /\ last'.reads = 2
                /\ Len(last'.result.games) = Len(Handlers[i].rows)
                /\ last'.result[Handlers[i].countField] = Handlers[i].count
                /\ cache'[Handlers[i].key].value = last'.result]_vars
    /\ [][\A i \in DOMAIN Handlers :
            (Reading(i) /\ storeRejects(i)) =>
                /\ last'.op = Handlers[i].op
                /\ last'.status = "StoreError"
                /\ last'.result = Null
                /\ cache' = cache
                /\ i \notin DOMAIN Handlers']_vars
    /\ [](\A k \in DOMAIN cache :
            /\ Has(cache[k].value, "games")
            /\ Has(cache[k].value, "gamesCount") \/ Has(cache[k].value, "commentsCount"))

\* a list or listByUser call failed on a store read while a response was cached
C15_Witness ==
    /\ last.op \in CachedActions
    /\ last.status = "StoreError"
    /\ cache # EmptyCache

\* the value is a user object of users.get
IsUserObject(v) == ToString(v) \in {ToString(UserObject(u)) : u \in Users}

\* C16: the game a successful create or update returns, and every game a list or
\* listByUser returns, carries under creator the user object of users.get, not the id
C16_CreatorPopulated ==
    /\ (last.op \in {"create", "update"} /\ last.status = "ok" /\ last.result.game # Null)
        => IsUserObject(last.result.game.creator)
    /\ (last.op \in CachedActions /\ last.status = "ok")
        => \A i \in 1..Len(last.result.games) : IsUserObject(last.result.games[i].creator)

\* C17: a list or listByUser call answered from the cache is answered with a
\* response whose rows and count were read after every write of a create, update
\* or remove that had returned when the call began
C17_NoStaleAfterReturn ==
    [][(Called /\ last'.op \in CachedActions /\ last'.hit)
        => /\ last'.from.rowsAt >= flight.returned
           /\ last'.from.countAt >= flight.returned]_vars

\* C18: the count of a list response computed from the store is the number of
\* matching games of the store state its rows were read from, and the response
\* has no more rows than its count
C18_CountOfRowsState ==
    (last.op = "games.list" /\ last.status = "ok" /\ ~last.hit)
        => /\ last.result.gamesCount = last.from.matched
           /\ Len(last.result.games) <= last.result.gamesCount

\* the steps after which a create, update or remove has the answer of its write
Wrote == {"inserted", "written", "returned", "removed", "changed"}

\* C19: a create, update or remove that ends in an error returns nothing, goes no
\* further, and leaves the store and the cache as they are; an entry leaves the
\* cache only by the event cache.clean.users or by a step of a create, update or
\* remove that has the store's answer to its write
C19_InvalidationAfterWrite ==
    /\ [][(Called /\ last'.op \in Mutations /\ last'.status # "ok") =>
            /\ cache' = cache
            /\ store' = store
            /\ last'.result = Null
            /\ last'.dropped = 0
            /\ DOMAIN Handlers' \subseteq DOMAIN Handlers
            /\ \A i \in DOMAIN Handlers : Stepped(i) => i \notin DOMAIN Handlers']_vars
    /\ [][(\E k \in DOMAIN cache : k \notin DOMAIN cache') =>
            \/ flight'.begun # flight.begun /\ Handlers' = Handlers /\ last' = last
            \/ \E i \in DOMAIN Handlers :
                /\ Stepped(i)
                /\ Handlers[i].op \in Mutations
                /\ Handlers[i].pc \in Wrote]_vars

\* a create, update or remove failed at the store while a response was cached
C19_Witness ==
    /\ last.op \in Mutations
    /\ last.status = "StoreError"
    /\ cache # EmptyCache

\* C20: an update that reports success returns the game, which the store holds at
\* the time of the write, and no step other than the insert of a create adds a
\* game to the store
C20_NoSuccessOnRemoved ==
    /\ []((last.op = "update" /\ last.status = "ok") => last.result.game # Null)
    /\ [][nextId' = nextId => {e._id : e \in store'} \subseteq {d._id : d \in store}]_vars
====
